---- MODULE Spec2Model ----
(***************************************************************************)
(* A model of amd::Context (src/platform/context.cpp): construction and    *)
(* destruction with the devices' reference counts, create() with the       *)
(* binding of external devices, the host allocator, the cross-device SVM   *)
(* allocator under ctxLock_, and the device-queue registry.                *)
(*                                                                         *)
(* Devices, queues, threads and addresses are small integers; 0 is the     *)
(* null pointer.  A device is an external collaborator: what it answers to *)
(* svmSupport(), isFineGrainedSystem(true), customHostAllocator(),         *)
(* info().svmCapabilities_ and info().maxOnDeviceQueues_ is fixed per      *)
(* device (devInfo); what its svmAlloc and bindExternalDevice return is    *)
(* chosen freely at every call.                                            *)
(***************************************************************************)
EXTENDS Integers, Sequences, FiniteSets, TLC

\* Bounds of the model.
NumDevices == 3
NumThreads == 2
NumAddrs == 2
NumQueues == 2
\* The largest info().maxOnDeviceQueues_ a device advertises.
MaxOnDeviceQueues == 1
\* No more than this many queues are registered on (or, in a build without
\* assertions, deregistered below zero from) one device.
MaxQueueCnt == 2
\* The calls made on one context between create() and its destruction.
MaxCalls == 1
\* The registry calls made on one context when their history is recorded.
MaxQueueCalls == 4
\* The (tag, value) pairs of a property list, the terminating zero tag apart.
MaxProps == 2
\* The svmAlloc / svmFree calls made on one context when what the devices
\* hold is recorded.
MaxSvmCalls == 2

NULL == 0
Devices == 1..NumDevices
Threads == 1..NumThreads
Addrs == 1..NumAddrs
Queues == 1..NumQueues

\* cl_svm_mem_flags as the set of bits set; only CL_MEM_SVM_ATOMICS is read.
SvmFlags == {{}, {"CL_MEM_SVM_ATOMICS"}}

\* Context::Info::flags_ as the set of bits set: the values the constructor
\* is given.
InfoFlagSets ==
  {{}, {"GLDeviceKhr"}, {"D3D10DeviceKhr"}, {"D3D9DeviceKhr"}}

VARIABLES
  devInfo,                 \* per device: its fixed answers (see DevInfos)
  ndebug,                  \* the build defines NDEBUG (assert is a no-op)
  platform,                \* the build's target: "_WIN32", "__linux__", "__APPLE__", "other"
  props,                   \* the client's property list (see PropertyLists)
  checkRet,                \* what checkProperties returned and left in *info
  phase,                   \* "new", "constructed", "created", "destroyed"
  devices_,                \* Context::devices_
  info_,                   \* Context::info_ (its flags_)
  properties_,             \* Context::properties_: "NULL" or "copy"
  glenv_,                  \* Context::glenv_: "NULL" or "GLFunctions"
  glSetup,                 \* how create() fared with the GL library (see Create)
  customHostAllocDevice_,  \* Context::customHostAllocDevice_
  svmAllocDevice_,         \* Context::svmAllocDevice_
  retains,                 \* per device: retain() calls made by the context
  releases,                \* per device: release() calls made by the context
  createRet,               \* what create() returned, "none" before
  bindCalls,               \* the bindExternalDevice calls of create()
  dtorCalls,               \* the calls made by the destructor, in order
  hostRet,                 \* the last hostAlloc / hostFree dispatch
  ctxLock_,                \* owner of Context::ctxLock_, NULL when free
  frame,                   \* per thread: the activation of svmAlloc / svmFree
  deviceQueues_,           \* Context::deviceQueues_ (a std::map)
  queryRet,                \* the value isDevQueuePossible last returned
  aborted,                 \* an assertion has failed: the process is gone
  hist,                    \* history of the registry calls (see Recorded)
  budget                   \* the calls the client may still start (see StartCall)

propVars == <<platform, props, checkRet>>
ctxVars ==
  <<devInfo, ndebug, propVars, devices_, info_, customHostAllocDevice_, svmAllocDevice_>>
lifeVars ==
  <<phase, properties_, glenv_, glSetup, retains, releases, createRet, bindCalls,
    dtorCalls>>
svmVars == <<ctxLock_, frame>>
queueVars == <<deviceQueues_, queryRet, aborted, hist>>

vars == <<ctxVars, lifeVars, hostRet, svmVars, queueVars, budget>>

\* The client starts a call of a member function other than create(): when
\* its calls are limited, one of them is used up.
StartCall ==
  /\ budget.limited => budget.left > 0
  /\ budget' = IF budget.limited THEN [budget EXCEPT !.left = @ - 1] ELSE budget

----------------------------------------------------------------------------
\* Sequence helpers.

Range(s) == {s[i] : i \in 1..Len(s)}

IsPrefix(s, t) == Len(s) <= Len(t) /\ \A i \in 1..Len(s) : s[i] = t[i]

\* std::swap of two elements of a vector.
SwapElems(s, i, j) == [s EXCEPT ![i] = s[j], ![j] = s[i]]

\* The concatenation of the sequences f[1], ..., f[n].
RECURSIVE Flatten(_, _)
Flatten(f, n) == IF n = 0 THEN <<>> ELSE Flatten(f, n - 1) \o f[n]

\* How often d occurs in s.
Occurrences(s, d) == Cardinality({i \in 1..Len(s) : s[i] = d})

----------------------------------------------------------------------------
\* The property validator (Context::checkProperties).

\* Line 125: CL_TRUE.
CL_TRUE == 1
\* Line 196: AMD_PLATFORM, the one platform identity.
AMD_PLATFORM == 2

\* The targets the preprocessor conditions of lines 129-183 tell apart.
Platforms == {"_WIN32", "__linux__", "__APPLE__", "other"}

\* The tags of the switch of lines 123-209, and a tag that is none of them.
D3DTags ==
  {"CL_CONTEXT_D3D10_DEVICE_KHR", "CL_CONTEXT_D3D11_DEVICE_KHR",
   "CL_CONTEXT_ADAPTER_D3D9_KHR", "CL_CONTEXT_ADAPTER_D3D9EX_KHR",
   "CL_CONTEXT_ADAPTER_DXVA_KHR"}
GLTags ==
  {"CL_EGL_DISPLAY_KHR", "CL_WGL_HDC_KHR", "CL_GLX_DISPLAY_KHR",
   "CL_CGL_SHAREGROUP_KHR", "CL_GL_CONTEXT_KHR"}
PropertyTags ==
  D3DTags \cup GLTags \cup
  {"CL_CONTEXT_INTEROP_USER_SYNC", "CL_CONTEXT_PLATFORM",
   "CL_CONTEXT_OFFLINE_DEVICES_AMD", "UNKNOWN_TAG"}

\* The case labels the build compiles in.
CompiledTags(plat) ==
  {"CL_CONTEXT_INTEROP_USER_SYNC", "CL_EGL_DISPLAY_KHR", "CL_GL_CONTEXT_KHR",
   "CL_CONTEXT_PLATFORM", "CL_CONTEXT_OFFLINE_DEVICES_AMD"}
  \cup (IF plat = "_WIN32" THEN D3DTags \cup {"CL_WGL_HDC_KHR"} ELSE {})
  \cup (IF plat = "__linux__" THEN {"CL_GLX_DISPLAY_KHR"} ELSE {})
  \cup (IF plat = "__APPLE__" THEN {"CL_CGL_SHAREGROUP_KHR"} ELSE {})

\* Lines 134-163: the flag and the hDev_ index of a D3D tag.
D3DFlag(tag) ==
  CASE tag = "CL_CONTEXT_D3D10_DEVICE_KHR" -> "D3D10DeviceKhr"
    [] tag = "CL_CONTEXT_D3D11_DEVICE_KHR" -> "D3D11DeviceKhr"
    [] tag = "CL_CONTEXT_ADAPTER_D3D9_KHR" -> "D3D9DeviceKhr"
    [] tag = "CL_CONTEXT_ADAPTER_D3D9EX_KHR" -> "D3D9DeviceEXKhr"
    [] tag = "CL_CONTEXT_ADAPTER_DXVA_KHR" -> "D3D9DeviceVAKhr"

D3DIdx(tag) ==
  CASE tag = "CL_CONTEXT_D3D10_DEVICE_KHR" -> "D3D10DeviceKhrIdx"
    [] tag = "CL_CONTEXT_D3D11_DEVICE_KHR" -> "D3D11DeviceKhrIdx"
    [] tag = "CL_CONTEXT_ADAPTER_D3D9_KHR" -> "D3D9DeviceKhrIdx"
    [] tag = "CL_CONTEXT_ADAPTER_D3D9EX_KHR" -> "D3D9DeviceEXKhrIdx"
    [] tag = "CL_CONTEXT_ADAPTER_DXVA_KHR" -> "D3D9DeviceVAKhrIdx"

\* The values a property carries: NULL, CL_TRUE (also the sentinel 1 and a
\* handle), AMD_PLATFORM (also a handle).
PropertyValues == {NULL, CL_TRUE, AMD_PLATFORM}

\* A property list: the NULL pointer, or (name, ptr) pairs before the zero tag.
Elements == [name : PropertyTags, ptr : PropertyValues]
PropertyLists ==
  {[isNull |-> TRUE, pairs |-> <<>>]}
  \cup {[isNull |-> FALSE, pairs |-> l] :
          l \in UNION {[1..n -> Elements] : n \in 0..MaxProps}}

\* Line 115: *info after the memset.
HDevIdx ==
  {"GLDeviceKhrIdx", "D3D10DeviceKhrIdx", "D3D11DeviceKhrIdx", "D3D9DeviceKhrIdx",
   "D3D9DeviceEXKhrIdx", "D3D9DeviceVAKhrIdx"}
ZeroInfo ==
  [flags_ |-> {}, hDev_ |-> [k \in HDevIdx |-> NULL], hCtx_ |-> NULL,
   propertiesSize_ |-> 0]

Continue(info) == [ret |-> "continue", info |-> info]
Return(ret, info) == [ret |-> ret, info |-> info]

\* Line 187: the error for a null GL handle.
NullGLHandleError == "CL_INVALID_GL_SHAREGROUP_REFERENCE_KHR"

\* Lines 185-193: case CL_GL_CONTEXT_KHR, also reached by falling through.
GLContextCase(info, e) ==
  IF e.ptr = NULL
  THEN Return(NullGLHandleError, info)
  ELSE Continue([info EXCEPT
         !.hCtx_ = IF e.name = "CL_GL_CONTEXT_KHR" THEN e.ptr ELSE @,
         !.flags_ = @ \cup {"GLDeviceKhr"}])

\* Lines 179-183: case CL_CGL_SHAREGROUP_KHR, compiled for __APPLE__ only;
\* Unimplemented() aborts or returns, as the build has it.
CGLCase(info, unimplementedAborts) ==
  IF unimplementedAborts THEN Return("abort", info) ELSE Continue(info)

\* Lines 171-177: the display labels, which store the handle and fall through.
DisplayCase(info, e, plat, unimplementedAborts) ==
  LET stored == [info EXCEPT !.hDev_["GLDeviceKhrIdx"] = e.ptr]
  IN IF plat = "__APPLE__" THEN CGLCase(stored, unimplementedAborts)
     ELSE GLContextCase(stored, e)

\* Lines 123-209: the switch, for one element of the list.
CheckElement(info, e, plat, unimplementedAborts) ==
  IF e.name \notin CompiledTags(plat)
  THEN Return("CL_INVALID_VALUE", info)
  ELSE CASE e.name = "CL_CONTEXT_INTEROP_USER_SYNC" ->
              Continue(IF e.ptr = CL_TRUE
                       THEN [info EXCEPT !.flags_ = @ \cup {"InteropUserSync"}]
                       ELSE info)
         [] e.name \in D3DTags ->
              IF e.ptr = NULL
              THEN Return("CL_INVALID_VALUE", info)
              ELSE Continue([info EXCEPT
                     !.hDev_[D3DIdx(e.name)] = e.ptr,
                     !.flags_ = @ \cup {D3DFlag(e.name)}])
         [] e.name = "CL_EGL_DISPLAY_KHR" ->
              DisplayCase([info EXCEPT !.flags_ = @ \cup {"EGLDeviceKhr"}], e, plat,
                          unimplementedAborts)
         [] e.name \in {"CL_WGL_HDC_KHR", "CL_GLX_DISPLAY_KHR"} ->
              DisplayCase(info, e, plat, unimplementedAborts)
         [] e.name = "CL_CGL_SHAREGROUP_KHR" -> CGLCase(info, unimplementedAborts)
         [] e.name = "CL_GL_CONTEXT_KHR" -> GLContextCase(info, e)
         [] e.name = "CL_CONTEXT_PLATFORM" ->
              IF e.ptr # NULL /\ e.ptr # AMD_PLATFORM
              THEN Return("CL_INVALID_VALUE", info)
              ELSE Continue(info)
         [] e.name = "CL_CONTEXT_OFFLINE_DEVICES_AMD" ->
              IF e.ptr # 1
              THEN Return("CL_INVALID_VALUE", info)
              ELSE Continue([info EXCEPT !.flags_ = @ \cup {"OfflineDevices"}])

\* Lines 121-215: the loop from element i on, count elements done so far.
RECURSIVE CheckFrom(_, _, _, _, _)
CheckFrom(pairs, i, info, plat, unimplementedAborts) ==
  IF i > Len(pairs)
  THEN Return("CL_SUCCESS",
              [info EXCEPT !.propertiesSize_ = (i - 1) * 2 + 1])
  ELSE LET r == CheckElement(info, pairs[i], plat, unimplementedAborts)
       IN IF r.ret = "continue"
          THEN CheckFrom(pairs, i + 1, r.info, plat, unimplementedAborts)
          ELSE r

\* Lines 105-216, the whole of checkProperties: its return value and *info.
\* propertiesSize_ is in words: two per element and one for the zero tag.
checkProperties(properties, plat, unimplementedAborts) ==
  IF properties.isNull
  THEN Return("CL_SUCCESS", ZeroInfo)
  ELSE CheckFrom(properties.pairs, 1, ZeroInfo, plat, unimplementedAborts)

NoCheck == [ret |-> "none", info |-> ZeroInfo]
NullProperties == [isNull |-> TRUE, pairs |-> <<>>]

\* A call of checkProperties on the client's list.
CheckPropertiesCall ==
  /\ phase = "new"
  /\ checkRet = NoCheck
  /\ \E unimplementedAborts \in BOOLEAN :
       checkRet' = checkProperties(props, platform, unimplementedAborts)
  /\ UNCHANGED <<budget, devInfo, ndebug, platform, props, devices_, info_,
                 customHostAllocDevice_, svmAllocDevice_, lifeVars, hostRet,
                 svmVars, queueVars>>

----------------------------------------------------------------------------
\* Construction (Context::Context).

\* Lines 53-61: the devices that answer svmSupport(), in input order.
SvmCapable(devs) == SelectSeq(devs, LAMBDA d : devInfo[d].svm)

\* Mutant: the first incapable device is not looked for.
OrderSvmDevices_NoSwap(s) == s

\* Mutant: the last incapable device is swapped to the front, and whatever
\* the front device answers.
OrderSvmDevices_Last(s) ==
  LET hit == {i \in 1..Len(s) : ~devInfo[s[i]].fgs}
  IN IF hit = {} THEN s
     ELSE SwapElems(s, 1, CHOOSE i \in hit : \A j \in hit : i >= j)

\* Lines 63-72: when the front device is fine-grained-system capable, the
\* first incapable device of the vector is swapped to the front.
OrderSvmDevices(s) ==
  IF Len(s) > 1
  THEN LET isFirstDeviceFGSEnabled == devInfo[s[1]].fgs
           hit == {i \in 1..Len(s) : isFirstDeviceFGSEnabled /\ ~devInfo[s[i]].fgs}
       IN IF hit = {} THEN s
          ELSE SwapElems(s, 1, CHOOSE i \in hit : \A j \in hit : i <= j)
  ELSE s

\* Lines 55-57: the first device, in input order, with a custom host allocator.
FirstCustomHostAlloc(devs) ==
  LET hit == {i \in 1..Len(devs) : devInfo[devs[i]].custom}
  IN IF hit = {} THEN NULL ELSE devs[CHOOSE i \in hit : \A j \in hit : i <= j]

\* Mutant: a device is retained once more when it supports SVM.
RetainsOfCtor_Twice(devs, d) ==
  Occurrences(devs, d) + IF d \in Range(SvmCapable(devs)) THEN 1 ELSE 0

\* Line 54: one retain() per entry of the device list.
RetainsOfCtor(devs, d) == Occurrences(devs, d)

\* The device lists given to the constructor.  Device identities carry no
\* meaning and every capability is chosen freely per device, so the devices
\* are named by their position in the input list; the devices beyond the
\* list are devices outside the context.
DeviceLists == {[i \in 1..n |-> i] : n \in 1..NumDevices}

\* A device's fixed answers: svmSupport(), isFineGrainedSystem(true),
\* info().svmCapabilities_ & CL_DEVICE_SVM_ATOMICS, customHostAllocator(),
\* info().maxOnDeviceQueues_.
DevInfos ==
  [Devices -> [svm : BOOLEAN, fgs : BOOLEAN, atomics : BOOLEAN,
               custom : BOOLEAN, maxOnDeviceQueues_ : 0..MaxOnDeviceQueues]]

\* Lines 47-73, the whole constructor.
Construct(devices, flags) ==
  /\ phase = "new"
  /\ phase' = "constructed"
  /\ devices_' = devices
  /\ info_' = [flags_ |-> flags]
  /\ properties_' = "NULL"
  /\ glenv_' = "NULL"
  /\ retains' = [d \in Devices |-> retains[d] + RetainsOfCtor(devices, d)]
  /\ customHostAllocDevice_' = FirstCustomHostAlloc(devices)
  /\ svmAllocDevice_' = OrderSvmDevices(SvmCapable(devices))
  /\ UNCHANGED <<budget, devInfo, ndebug, propVars, glSetup, releases, createRet,
                 bindCalls, dtorCalls, hostRet, svmVars, queueVars>>

----------------------------------------------------------------------------
\* create() and the destructor.

\* The context exists and the process has not aborted.
Live == phase \in {"constructed", "created"} /\ ~aborted

\* Lines 232-233: the kinds of external device create() binds for.
BindKinds ==
  {"D3D10DeviceKhr", "D3D11DeviceKhr", "GLDeviceKhr", "D3D9DeviceKhr",
   "D3D9DeviceEXKhr", "D3D9DeviceVAKhr"}

\* Line 81: the kinds of external device the destructor unbinds for.
UnbindKinds == {"GLDeviceKhr", "D3D10DeviceKhr", "D3D11DeviceKhr"}

\* Lines 231-240: every device is asked to bind, whatever the others answered.
BindLoop(flags, bindOk) ==
  IF flags \cap BindKinds # {}
  THEN [i \in 1..Len(devices_) |-> [dev |-> devices_[i], ok |-> bindOk[i]]]
  ELSE <<>>

\* Lines 242-252: the result after the binding loop.
BindResult(flags, calls) ==
  IF \E i \in 1..Len(calls) : ~calls[i].ok
  THEN IF "GLDeviceKhr" \in flags
       THEN "CL_INVALID_GL_SHAREGROUP_REFERENCE_KHR"
       ELSE "CL_INVALID_VALUE"
  ELSE "CL_SUCCESS"

\* Lines 218-282, the whole of create().  properties is whether the caller's
\* list is not NULL; bindOk is what each device's bindExternalDevice returns;
\* loaded is whether Os::loadLibrary finds the GL library and initOk what
\* GLFunctions::init returns.
Create(properties, bindOk, loaded, initOk) ==
  /\ phase = "constructed"
  /\ phase' = "created"
  /\ properties_' = IF properties THEN "copy" ELSE "NULL"
  /\ LET flags == info_.flags_
         calls == BindLoop(flags, bindOk)
         result == BindResult(flags, calls)
         initGL == result = "CL_SUCCESS" /\ "GLDeviceKhr" \in flags /\ glenv_ = "NULL"
     IN /\ bindCalls' = calls
        /\ glenv_' = IF initGL /\ loaded /\ initOk THEN "GLFunctions" ELSE glenv_
        /\ glSetup' = IF ~initGL THEN "none"
                      ELSE IF ~loaded THEN "loadLibrary failed"
                      ELSE IF ~initOk THEN "init failed" ELSE "done"
        /\ createRet' = IF initGL /\ loaded /\ ~initOk
                        THEN "CL_INVALID_GL_SHAREGROUP_REFERENCE_KHR"
                        ELSE result
  /\ UNCHANGED <<budget, ctxVars, retains, releases, dtorCalls, hostRet, svmVars, queueVars>>

DtorCall(fn, dev) == [fn |-> fn, dev |-> dev]

\* Mutant: the device is released before it is told of the destruction.
DtorOfDevice_ReleaseFirst(d) ==
  <<DtorCall("release", d), DtorCall("ContextDestroy", d)>>
  \o (IF info_.flags_ \cap UnbindKinds # {}
      THEN <<DtorCall("unbindExternalDevice", d)>> ELSE <<>>)

\* Lines 79-90: what the destructor's loop does with one device.
DtorOfDevice(d) ==
  (IF info_.flags_ \cap UnbindKinds # {}
   THEN <<DtorCall("unbindExternalDevice", d)>> ELSE <<>>)
  \o <<DtorCall("ContextDestroy", d), DtorCall("release", d)>>

\* Line 89: the release() calls among the destructor's calls.
ReleasesOfDtor(calls, d) ==
  Cardinality({k \in 1..Len(calls) : calls[k] = DtorCall("release", d)})

\* Lines 75-103, the whole destructor.  It runs when no other call is in
\* progress on the context.
Destruct ==
  /\ Live
  /\ \A t \in Threads : frame[t].pc = "idle"
  /\ phase' = "destroyed"
  /\ LET calls ==
           Flatten([i \in 1..Len(devices_) |-> DtorOfDevice(devices_[i])], Len(devices_))
           \o (IF properties_ # "NULL" THEN <<DtorCall("delete properties_", NULL)>> ELSE <<>>)
           \o (IF glenv_ # "NULL" THEN <<DtorCall("delete glenv_", NULL)>> ELSE <<>>)
     IN /\ dtorCalls' = calls
        /\ releases' = [d \in Devices |-> releases[d] + ReleasesOfDtor(calls, d)]
  /\ properties_' = "NULL"
  /\ glenv_' = "NULL"
  /\ UNCHANGED <<budget, ctxVars, glSetup, retains, createRet, bindCalls, hostRet,
                 svmVars, queueVars>>

----------------------------------------------------------------------------
\* The host allocator (Context::hostAlloc, Context::hostFree).

\* Lines 284-291: the custom device when there is one, AlignedMemory (by = NULL)
\* otherwise.
HostAlloc(atomics) ==
  /\ Live
  /\ hostRet' = [fn |-> "hostAlloc", by |-> customHostAllocDevice_,
                 segment |-> IF customHostAllocDevice_ = NULL THEN "none"
                             ELSE IF atomics THEN "kAtomics" ELSE "kNoAtomics"]
  /\ StartCall
  /\ UNCHANGED <<ctxVars, lifeVars, svmVars, queueVars>>

\* Lines 293-299.
HostFree ==
  /\ Live
  /\ hostRet' = [fn |-> "hostFree", by |-> customHostAllocDevice_, segment |-> "none"]
  /\ StartCall
  /\ UNCHANGED <<ctxVars, lifeVars, svmVars, queueVars>>

----------------------------------------------------------------------------
\* The SVM allocator (Context::svmAlloc, Context::svmFree).

IdleFrame ==
  [pc |-> "idle", op |-> "none", flags |-> {}, curDev |-> NULL, ptr |-> NULL,
   i |-> 0, svmPtrAlloced |-> NULL, calls |-> <<>>, ret |-> NULL]

\* What a device's svmAlloc may return: null, or an address.
DevSvmAllocReturns == {NULL} \cup Addrs

\* Mutant: the atomics capability is not consulted.
HonoursAtomics_Any(flags, dev) == TRUE

\* Lines 313-314 and 328-329: the device can honour the requested flags.
HonoursAtomics(flags, dev) ==
  ("CL_MEM_SVM_ATOMICS" \notin flags) \/ devInfo[dev].atomics

\* Mutant: the early return for an empty subset is missing.
NoSvmDevice_Never == FALSE

\* Lines 303-304: numSVMDev < 1.
NoSvmDevice == Len(svmAllocDevice_) < 1

\* Mutant: the loop does not skip the origin device.
SkipsDevice_NoOrigin(f, dev) == ~HonoursAtomics(f.flags, dev)

\* Lines 323-331: the loop's two "continue" conditions.
SkipsDevice(f, dev) == dev = f.curDev \/ ~HonoursAtomics(f.flags, dev)

\* Mutant: every device is asked for a fresh allocation.
ExistingAddress_Null(f) == NULL

\* Lines 315 and 332: the existing address handed to the device is the
\* pointer obtained so far.
ExistingAddress(f) == f.svmPtrAlloced

\* Mutant: the lock is taken without waiting for its holder.
LockIsFree_Always == TRUE

\* The ScopedLock's constructor proceeds only when the lock is free.
LockIsFree == ctxLock_ = NULL

\* Mutant: the loop stops after the first device.
FreeLoopDone_First(f) == f.i > Len(svmAllocDevice_) \/ f.i > 1

\* Line 342: the range-for over svmAllocDevice_ is exhausted.
FreeLoopDone(f) == f.i > Len(svmAllocDevice_)

\* Mutant: the loop goes on after a device has returned nullptr.
AfterSvmAlloc_GoOn(r) == "alloc_loop"

\* Lines 316-318 and 333-335: a null result returns at once.
AfterSvmAlloc(r) == IF r = NULL THEN "done" ELSE "alloc_loop"

\* What the devices hold, recorded when hist.on.  hist.held[d] is the
\* addresses d has returned from its svmAlloc and not been asked to svmFree;
\* hist.given[d] is those among the pointers svmAlloc has returned to the
\* client for which d performed an svmAlloc and has not been asked to svmFree.
DeviceAllocated(dev, r) ==
  IF hist.on /\ r # NULL
  THEN [hist EXCEPT !.held[dev] = @ \cup {r}]
  ELSE hist

SvmAllocReturned(asked, ret) ==
  IF hist.on /\ ret # NULL
  THEN [hist EXCEPT !.given = [d \in Devices |->
          IF d \in asked THEN hist.given[d] \cup {ret} ELSE hist.given[d]]]
  ELSE hist

DeviceFreed(dev, p) ==
  IF hist.on
  THEN [hist EXCEPT !.held[dev] = @ \ {p}, !.given[dev] = @ \ {p}]
  ELSE hist

\* The registry's variables, which the allocator leaves alone.
registryVars == <<deviceQueues_, queryRet, aborted>>

\* One device-level svmAlloc call, as recorded in the caller's frame.
AllocCall(dev, arg, r) == [fn |-> "svmAlloc", dev |-> dev, arg |-> arg, ret |-> r]
FreeCall(dev, p) == [fn |-> "svmFree", dev |-> dev, arg |-> p, ret |-> NULL]

\* Lines 301-306: entry of svmAlloc; an empty SVM subset returns nullptr
\* before the lock is taken.
SvmAllocEnter(t, flags, curDev) ==
  /\ Live
  /\ frame[t].pc = "idle"
  /\ LET f == [IdleFrame EXCEPT !.op = "svmAlloc", !.flags = flags, !.curDev = curDev]
     IN frame' = [frame EXCEPT ![t] =
          IF NoSvmDevice
          THEN [f EXCEPT !.pc = "done", !.ret = NULL]
          ELSE [f EXCEPT !.pc = "alloc_lock"]]
  /\ StartCall
  /\ UNCHANGED <<ctxVars, lifeVars, hostRet, queueVars, ctxLock_>>

\* Lines 308-310: amd::ScopedLock lock(&ctxLock_) blocks until the lock is free.
SvmAllocLock(t) ==
  /\ frame[t].pc = "alloc_lock" /\ ~aborted
  /\ LockIsFree
  /\ ctxLock_' = t
  /\ frame' = [frame EXCEPT ![t].pc = "alloc_curDev", ![t].svmPtrAlloced = NULL]
  /\ UNCHANGED <<budget, ctxVars, lifeVars, hostRet, queueVars>>

\* Lines 312-320: the origin device, when supplied and able to honour the
\* flags, is asked first; a null result returns nullptr.
SvmAllocCurDev(t) ==
  /\ frame[t].pc = "alloc_curDev" /\ ~aborted
  /\ LET f == frame[t] IN
     IF f.curDev # NULL /\ HonoursAtomics(f.flags, f.curDev)
     THEN \E r \in DevSvmAllocReturns :
            /\ frame' = [frame EXCEPT ![t] =
                 [f EXCEPT !.calls = Append(@, AllocCall(f.curDev, ExistingAddress(f), r)),
                           !.svmPtrAlloced = r,
                           !.pc = AfterSvmAlloc(r),
                           !.ret = NULL,
                           !.i = 1]]
            /\ hist' = DeviceAllocated(f.curDev, r)
     ELSE /\ frame' = [frame EXCEPT ![t].pc = "alloc_loop", ![t].i = 1]
          /\ hist' = hist
  /\ UNCHANGED <<budget, ctxVars, lifeVars, hostRet, registryVars, ctxLock_>>

\* Lines 322-337: one iteration of the loop over svmAllocDevice_, or its exit.
SvmAllocLoop(t) ==
  /\ frame[t].pc = "alloc_loop" /\ ~aborted
  /\ LET f == frame[t] IN
     IF f.i > Len(svmAllocDevice_)
     THEN /\ frame' = [frame EXCEPT ![t].pc = "done", ![t].ret = f.svmPtrAlloced]
          /\ hist' = SvmAllocReturned({f.calls[k].dev : k \in 1..Len(f.calls)},
                                      f.svmPtrAlloced)
     ELSE LET dev == svmAllocDevice_[f.i] IN
          IF SkipsDevice(f, dev)
          THEN /\ frame' = [frame EXCEPT ![t].i = f.i + 1]
               /\ hist' = hist
          ELSE \E r \in DevSvmAllocReturns :
                 /\ frame' = [frame EXCEPT ![t] =
                      [f EXCEPT !.calls = Append(@, AllocCall(dev, ExistingAddress(f), r)),
                                !.svmPtrAlloced = r,
                                !.pc = AfterSvmAlloc(r),
                                !.ret = NULL,
                                !.i = f.i + 1]]
                 /\ hist' = DeviceAllocated(dev, r)
  /\ UNCHANGED <<budget, ctxVars, lifeVars, hostRet, registryVars, ctxLock_>>

\* Line 340: entry of svmFree.
SvmFreeEnter(t, p) ==
  /\ Live
  /\ frame[t].pc = "idle"
  /\ frame' = [frame EXCEPT ![t] =
       [IdleFrame EXCEPT !.op = "svmFree", !.ptr = p, !.pc = "free_lock"]]
  /\ StartCall
  /\ UNCHANGED <<ctxVars, lifeVars, hostRet, queueVars, ctxLock_>>

\* Line 341: amd::ScopedLock lock(&ctxLock_).
SvmFreeLock(t) ==
  /\ frame[t].pc = "free_lock" /\ ~aborted
  /\ LockIsFree
  /\ ctxLock_' = t
  /\ frame' = [frame EXCEPT ![t].pc = "free_loop", ![t].i = 1]
  /\ UNCHANGED <<budget, ctxVars, lifeVars, hostRet, queueVars>>

\* Lines 342-345: one iteration of the loop over svmAllocDevice_, or its exit.
SvmFreeLoop(t) ==
  /\ frame[t].pc = "free_loop" /\ ~aborted
  /\ LET f == frame[t] IN
     IF FreeLoopDone(f)
     THEN /\ frame' = [frame EXCEPT ![t].pc = "done"]
          /\ hist' = hist
     ELSE /\ frame' = [frame EXCEPT
               ![t].calls = Append(@, FreeCall(svmAllocDevice_[f.i], f.ptr)),
               ![t].i = f.i + 1]
          /\ hist' = DeviceFreed(svmAllocDevice_[f.i], f.ptr)
  /\ UNCHANGED <<budget, ctxVars, lifeVars, hostRet, registryVars, ctxLock_>>

\* The return of svmAlloc / svmFree: the ScopedLock's destructor releases
\* ctxLock_ when this activation holds it, and the activation is gone.
SvmReturn(t) ==
  /\ frame[t].pc = "done" /\ ~aborted
  /\ ctxLock_' = IF ctxLock_ = t THEN NULL ELSE ctxLock_
  /\ frame' = [frame EXCEPT ![t] = IdleFrame]
  /\ UNCHANGED <<budget, ctxVars, lifeVars, hostRet, queueVars>>

----------------------------------------------------------------------------
\* The device-queue registry (Context::deviceQueues_).
\*
\* deviceQueueCnt_ and maxOnDeviceQueues_ are 32-bit unsigned.  An unsigned
\* value v is held as the integer of -2^31 .. 2^31-1 congruent to v modulo
\* 2^32, so that UINT_MAX, which 0 - 1 wraps to, is held as -1; ++ and --
\* are then + 1 and - 1, and < is ULess.

\* Mutant: the comparison is <=.
ULess_OrEqual(a, b) == IF (a < 0) = (b < 0) THEN a <= b ELSE b < 0

\* a < b on unsigned values.
ULess(a, b) == IF (a < 0) = (b < 0) THEN a < b ELSE b < 0

\* A default-constructed DeviceQueueInfo.
NoQueueInfo == [defDeviceQueue_ |-> NULL, deviceQueueCnt_ |-> 0]

\* deviceQueues_[&dev] as an rvalue: the entry, or the one operator[] inserts.
Entry(d) == IF d \in DOMAIN deviceQueues_ THEN deviceQueues_[d] ELSE NoQueueInfo

\* deviceQueues_ with the entry of d set to e.
Put(d, e) ==
  [k \in (DOMAIN deviceQueues_) \cup {d} |-> IF k = d THEN e ELSE deviceQueues_[k]]

NoQuery == [dev |-> NULL, val |-> FALSE]

\* History of the registry calls, recorded when hist.on (with what the
\* devices hold, see DeviceAllocated): the last call and
\* the one before it, each with its arguments, the entry of its device before
\* the call (before), whether the map held that entry (seen) and whether the
\* queue was registered on the device and not yet deregistered (wasReg); and,
\* per device and queue, the registrations not yet deregistered (reg).
NoCall ==
  [fn |-> "none", dev |-> NULL, queue |-> NULL, defDevQueue |-> FALSE,
   before |-> NoQueueInfo, seen |-> FALSE, wasReg |-> FALSE]

NoHist(on) ==
  [on |-> on, prev |-> NoCall, last |-> NoCall,
   reg |-> [d \in Devices |-> [q \in Queues |-> 0]],
   held |-> [d \in Devices |-> {}], given |-> [d \in Devices |-> {}]]

Recorded(fn, d, queue, defDevQueue, effective) ==
  IF ~hist.on THEN hist
  ELSE [on |-> TRUE,
        held |-> hist.held,
        given |-> hist.given,
        prev |-> hist.last,
        last |-> [fn |-> fn, dev |-> d, queue |-> queue, defDevQueue |-> defDevQueue,
                  before |-> Entry(d), seen |-> d \in DOMAIN deviceQueues_,
                  wasReg |-> queue # NULL /\ hist.reg[d][queue] > 0],
        reg |-> IF ~effective THEN hist.reg
                ELSE IF fn = "addDeviceQueue"
                THEN [hist.reg EXCEPT ![d][queue] = @ + 1]
                ELSE IF fn = "removeDeviceQueue" /\ hist.reg[d][queue] > 0
                THEN [hist.reg EXCEPT ![d][queue] = @ - 1]
                ELSE hist.reg]

\* Lines 357-364: the default queue of a device, NULL when the map has no entry.
defDeviceQueue(d) ==
  IF d \in DOMAIN deviceQueues_ THEN deviceQueues_[d].defDeviceQueue_ ELSE NULL

\* Line 367: the value isDevQueuePossible returns.
DevQueuePossible(d) ==
  ULess(Entry(d).deviceQueueCnt_, devInfo[d].maxOnDeviceQueues_)

\* Lines 366-368: operator[] inserts the entry it does not find.
isDevQueuePossible(d) ==
  /\ Live
  /\ deviceQueues_' = Put(d, Entry(d))
  /\ queryRet' = [dev |-> d, val |-> DevQueuePossible(d)]
  /\ hist' = Recorded("isDevQueuePossible", d, NULL, FALSE, TRUE)
  /\ StartCall
  /\ UNCHANGED <<ctxVars, lifeVars, hostRet, svmVars, aborted>>

\* Lines 370-376.
addDeviceQueue(d, queue, defDevQueue) ==
  /\ Live
  /\ Entry(d).deviceQueueCnt_ < MaxQueueCnt
  /\ deviceQueues_' = Put(d,
       [deviceQueueCnt_ |-> Entry(d).deviceQueueCnt_ + 1,
        defDeviceQueue_ |-> IF defDevQueue THEN queue ELSE Entry(d).defDeviceQueue_])
  /\ queryRet' = NoQuery
  /\ hist' = Recorded("addDeviceQueue", d, queue, defDevQueue, TRUE)
  /\ StartCall
  /\ UNCHANGED <<ctxVars, lifeVars, hostRet, svmVars, aborted>>

\* Mutant: the default queue is left in place.
ClearedDefault_Never(e, queue) == e.defDeviceQueue_

\* Lines 382-384: the default queue is forgotten when it is the queue removed.
ClearedDefault(e, queue) ==
  IF e.defDeviceQueue_ = queue THEN NULL ELSE e.defDeviceQueue_

\* Lines 378-385.  With the count at zero the assertion fails and the process
\* aborts, unless the build defines NDEBUG: then the count wraps.
removeDeviceQueue(d, queue) ==
  /\ Live
  /\ Entry(d).deviceQueueCnt_ > -MaxQueueCnt
  /\ queryRet' = NoQuery
  /\ IF Entry(d).deviceQueueCnt_ = 0 /\ ~ndebug
     THEN /\ aborted' = TRUE
          /\ deviceQueues_' = Put(d, Entry(d))
     ELSE /\ aborted' = aborted
          /\ deviceQueues_' = Put(d,
               [deviceQueueCnt_ |-> Entry(d).deviceQueueCnt_ - 1,
                defDeviceQueue_ |-> ClearedDefault(Entry(d), queue)])
  /\ hist' = Recorded("removeDeviceQueue", d, queue, FALSE,
                      ~(Entry(d).deviceQueueCnt_ = 0 /\ ~ndebug))
  /\ StartCall
  /\ UNCHANGED <<ctxVars, lifeVars, hostRet, svmVars>>

----------------------------------------------------------------------------
\* Specifications.

\* What the constructor leaves in the members it sets (lines 47-73).
AfterConstruct(devices, flags) ==
  /\ phase = "constructed"
  /\ devices_ = devices
  /\ info_ = [flags_ |-> flags]
  /\ properties_ = "NULL"
  /\ glenv_ = "NULL"
  /\ retains = [d \in Devices |-> RetainsOfCtor(devices, d)]
  /\ customHostAllocDevice_ = FirstCustomHostAlloc(devices)
  /\ svmAllocDevice_ = OrderSvmDevices(SvmCapable(devices))

\* No context yet.
BeforeConstruct ==
  /\ phase = "new"
  /\ devices_ = <<>>
  /\ info_ = [flags_ |-> {}]
  /\ properties_ = "NULL"
  /\ glenv_ = "NULL"
  /\ retains = [d \in Devices |-> 0]
  /\ customHostAllocDevice_ = NULL
  /\ svmAllocDevice_ = <<>>

\* The client has no property list and checkProperties has not run.
NoPropertiesYet ==
  /\ platform = "_WIN32"
  /\ props = NullProperties
  /\ checkRet = NoCheck

\* Nothing has been called yet.
NoCallYet ==
  /\ glSetup = "none"
  /\ releases = [d \in Devices |-> 0]
  /\ createRet = "none"
  /\ bindCalls = <<>>
  /\ dtorCalls = <<>>
  /\ hostRet = [fn |-> "none", by |-> NULL, segment |-> "none"]
  /\ ctxLock_ = NULL
  /\ frame = [t \in Threads |-> IdleFrame]
  /\ deviceQueues_ = <<>>
  /\ queryRet = NoQuery
  /\ aborted = FALSE
  /\ hist \in {NoHist(FALSE), NoHist(TRUE)}

SvmCallStart ==
  \E t \in Threads :
    \/ \E flags \in SvmFlags, curDev \in {NULL} \cup Devices : SvmAllocEnter(t, flags, curDev)
    \/ \E p \in Addrs : SvmFreeEnter(t, p)

SvmCallStep ==
  \E t \in Threads :
    \/ SvmAllocLock(t)
    \/ SvmAllocCurDev(t)
    \/ SvmAllocLoop(t)
    \/ SvmFreeLock(t)
    \/ SvmFreeLoop(t)
    \/ SvmReturn(t)

QueueCall ==
  \E d \in Devices :
    \/ isDevQueuePossible(d)
    \/ \E q \in Queues, defDevQueue \in BOOLEAN : addDeviceQueue(d, q, defDevQueue)
    \/ \E q \in Queues : removeDeviceQueue(d, q)

HostCall == (\E atomics \in BOOLEAN : HostAlloc(atomics)) \/ HostFree

ConstructCall ==
  \E devices \in DeviceLists, flags \in InfoFlagSets : Construct(devices, flags)

CreateCall ==
  \E properties \in BOOLEAN, bindOk \in [1..Len(devices_) -> BOOLEAN],
     loaded \in BOOLEAN, initOk \in BOOLEAN :
    /\ info_.flags_ # {} => properties
    /\ Create(properties, bindOk, loaded, initOk)

\* The life of one context: construction, create(), at most MaxCalls calls
\* of its other member functions, destruction.  The allocator's capabilities
\* that the constructor does not read are fixed.
Init ==
  /\ devInfo \in {f \in DevInfos : \A d \in Devices :
                    ~f[d].fgs /\ ~f[d].atomics
                    /\ f[d].maxOnDeviceQueues_ = MaxOnDeviceQueues}
  /\ ndebug = FALSE
  /\ budget = [limited |-> TRUE, left |-> MaxCalls]
  /\ BeforeConstruct
  /\ hist = NoHist(FALSE)
  /\ NoPropertiesYet
  /\ NoCallYet

Next ==
  \/ ConstructCall
  \/ CreateCall
  \/ Destruct
  \/ HostCall
  \/ SvmCallStart
  \/ SvmCallStep
  \/ QueueCall

Spec == Init /\ [][Next]_vars

\* Construction and destruction alone, over every answer the constructor
\* reads.
InitCtor ==
  /\ devInfo \in {f \in DevInfos : \A d \in Devices :
                    ~f[d].atomics /\ f[d].maxOnDeviceQueues_ = 0}
  /\ ndebug = FALSE
  /\ budget = [limited |-> TRUE, left |-> 0]
  /\ BeforeConstruct
  /\ hist = NoHist(FALSE)
  /\ NoPropertiesYet
  /\ NoCallYet

NextCtor == ConstructCall \/ Destruct

SpecCtor == InitCtor /\ [][NextCtor]_vars

\* The allocator on a constructed context, called from every thread without
\* limit, over every answer the constructor and the allocator read.
InitSvm ==
  /\ devInfo \in {f \in DevInfos : \A d \in Devices :
                    ~f[d].custom /\ f[d].maxOnDeviceQueues_ = 0}
  /\ ndebug = FALSE
  /\ budget = [limited |-> FALSE, left |-> 0]
  /\ \E devices \in DeviceLists : AfterConstruct(devices, {})
  /\ hist = NoHist(FALSE)
  /\ NoPropertiesYet
  /\ NoCallYet

NextSvm == SvmCallStart \/ SvmCallStep

SpecSvm == InitSvm /\ [][NextSvm]_vars

\* The registry on a constructed context, called without limit, in both
\* builds, over every queue limit the devices advertise.
InitQueue ==
  /\ devInfo \in {f \in DevInfos : \A d \in Devices :
                    ~f[d].svm /\ ~f[d].fgs /\ ~f[d].atomics /\ ~f[d].custom}
  /\ ndebug \in BOOLEAN
  /\ budget = [limited |-> FALSE, left |-> 0]
  /\ \E devices \in DeviceLists : AfterConstruct(devices, {})
  /\ hist = NoHist(FALSE)
  /\ NoPropertiesYet
  /\ NoCallYet

NextQueue == QueueCall

SpecQueue == InitQueue /\ [][NextQueue]_vars

\* The life of a context as the client drives it: checkProperties on its
\* property list, the constructor with the descriptor that returned, create()
\* with the same list, the destructor; on every target, for every property
\* list of up to MaxProps elements.
ConstructChecked ==
  /\ checkRet.ret = "CL_SUCCESS"
  /\ \E devices \in DeviceLists : Construct(devices, checkRet.info.flags_)

CreateChecked ==
  /\ checkRet.ret = "CL_SUCCESS"
  /\ \E bindOk \in [1..Len(devices_) -> BOOLEAN], loaded \in BOOLEAN, initOk \in BOOLEAN :
       Create(~props.isNull, bindOk, loaded, initOk)

InitLife ==
  /\ devInfo \in {f \in DevInfos : \A d \in Devices :
                    ~f[d].svm /\ ~f[d].fgs /\ ~f[d].atomics /\ ~f[d].custom
                    /\ f[d].maxOnDeviceQueues_ = 0}
  /\ ndebug = FALSE
  /\ budget = [limited |-> TRUE, left |-> 0]
  /\ platform \in Platforms
  /\ props \in PropertyLists
  /\ checkRet = NoCheck
  /\ hist = NoHist(FALSE)
  /\ BeforeConstruct
  /\ NoCallYet

NextLife == CheckPropertiesCall \/ ConstructChecked \/ CreateChecked \/ Destruct

SpecLife == InitLife /\ [][NextLife]_vars

\* The registry on a constructed context with the history of its calls
\* recorded, in both builds, for every sequence of MaxQueueCalls calls.
InitRegistry ==
  /\ devInfo \in {f \in DevInfos : \A d \in Devices :
                    ~f[d].svm /\ ~f[d].fgs /\ ~f[d].atomics /\ ~f[d].custom
                    /\ f[d].maxOnDeviceQueues_ = MaxOnDeviceQueues}
  /\ ndebug \in BOOLEAN
  /\ budget = [limited |-> TRUE, left |-> MaxQueueCalls]
  /\ AfterConstruct([i \in 1..NumDevices |-> i], {})
  /\ hist = NoHist(TRUE)
  /\ NoPropertiesYet
  /\ NoCallYet

NextRegistry == QueueCall

SpecRegistry == InitRegistry /\ [][NextRegistry]_vars

\* The allocator on a constructed context with what the devices hold
\* recorded, for MaxSvmCalls calls from any threads; the devices' answers to
\* isFineGrainedSystem, which only order the subset, are fixed.
InitSvmHist ==
  /\ devInfo \in {f \in DevInfos : \A d \in Devices :
                    ~f[d].fgs /\ ~f[d].custom /\ f[d].maxOnDeviceQueues_ = 0}
  /\ ndebug = FALSE
  /\ budget = [limited |-> TRUE, left |-> MaxSvmCalls]
  /\ \E devices \in DeviceLists : AfterConstruct(devices, {})
  /\ hist = NoHist(TRUE)
  /\ NoPropertiesYet
  /\ NoCallYet

NextSvmHist == SvmCallStart \/ SvmCallStep

SpecSvmHist == InitSvmHist /\ [][NextSvmHist]_vars

\* svmAlloc and svmFree released by the scheduler: a device call returns, a
\* computation step is taken, and the monitor behind ctxLock_ lets a waiting
\* thread in when the lock is freed again and again.
SvmProgress(t) ==
  SvmAllocCurDev(t) \/ SvmAllocLoop(t) \/ SvmFreeLoop(t) \/ SvmReturn(t)

SvmAcquire(t) == SvmAllocLock(t) \/ SvmFreeLock(t)

\* The order of the subset plays no part in the locking: every device
\* answers isFineGrainedSystem with false.
InitLock == InitSvm /\ \A d \in Devices : ~devInfo[d].fgs

FairSpecSvm ==
  /\ InitLock /\ [][NextSvm]_vars
  /\ \A t \in Threads : WF_vars(SvmProgress(t)) /\ SF_vars(SvmAcquire(t))

----------------------------------------------------------------------------
\* Vocabulary of the claims about the allocator.

AllocFrames == {t \in Threads : frame[t].op = "svmAlloc"}
FreeFrames == {t \in Threads : frame[t].op = "svmFree"}
AllocDone(t) == frame[t].op = "svmAlloc" /\ frame[t].pc = "done"
FreeDone(t) == frame[t].op = "svmFree" /\ frame[t].pc = "done"

\* The devices asked by the calls of a frame, in call order.
Asked(f) == [k \in 1..Len(f.calls) |-> f.calls[k].dev]

\* A thread is inside the sequence of device-level calls.
Inside(t) == frame[t].pc \in {"alloc_curDev", "alloc_loop", "free_loop"}
Waiting(t) == frame[t].pc \in {"alloc_lock", "free_lock"}

\* The origin device is supplied and can honour the flags.
OriginHonours(f) == f.curDev # NULL /\ HonoursAtomics(f.flags, f.curDev)

\* The devices of the ordered subset that the loop does not skip.
Visitable(f) == SelectSeq(svmAllocDevice_, LAMBDA d : ~SkipsDevice(f, d))

OriginRule(f) ==
  /\ f.pc \in {"alloc_loop", "done"} => f.calls # <<>>
  /\ f.calls # <<>> =>
       /\ f.calls[1].dev = f.curDev
       /\ f.calls[1].arg = NULL
       /\ f.calls[1].ret = NULL => Len(f.calls) = 1 /\ f.pc = "done" /\ f.ret = NULL
  /\ Cardinality({k \in 1..Len(f.calls) : f.calls[k].dev = f.curDev}) <= 1

\* C3 as stated: whenever the origin device is supplied and can honour the
\* flags, every svmAlloc call asks it first.
C3_Original ==
  \A t \in AllocFrames : OriginHonours(frame[t]) => OriginRule(frame[t])

\* C3 amended: the same on a context whose SVM subset is not empty; with an
\* empty subset the origin device is not asked at all.
C3_OriginFirst ==
  \A t \in AllocFrames :
    OriginHonours(frame[t]) =>
      IF svmAllocDevice_ # <<>> THEN OriginRule(frame[t]) ELSE frame[t].calls = <<>>

C3_Witness ==
  \E t \in Threads :
    /\ AllocDone(t) /\ OriginHonours(frame[t])
    /\ frame[t].curDev \in Range(svmAllocDevice_)
    /\ Len(frame[t].calls) >= 2
    /\ frame[t].ret # NULL

\* C4: without an origin device the devices asked are, in order, the
\* non-skipped devices of the subset as ordered at construction (all of them
\* when no device fails); the first is passed null, each later one the
\* address the previous one returned; and when every device returns the
\* non-null address it was passed, the result is the address allocated on
\* every visited device.
C4_MirrorInOrder ==
  /\ svmAllocDevice_ = OrderSvmDevices(SvmCapable(devices_))
  /\ \A t \in AllocFrames :
       LET f == frame[t] IN
       f.curDev = NULL =>
         /\ IsPrefix(Asked(f), Visitable(f))
         /\ \A k \in 1..Len(f.calls) :
              f.calls[k].arg = IF k = 1 THEN NULL ELSE f.calls[k - 1].ret
         /\ (f.pc = "done" /\ \A k \in 1..Len(f.calls) : f.calls[k].ret # NULL)
              => Asked(f) = Visitable(f)
         /\ ( /\ f.pc = "done"
              /\ \A k \in 1..Len(f.calls) : f.calls[k].ret # NULL
              /\ \A k \in 2..Len(f.calls) : f.calls[k].ret = f.calls[k].arg )
              => \A k \in 1..Len(f.calls) : f.calls[k].ret = f.ret

C4_Witness ==
  \E t \in Threads :
    /\ AllocDone(t) /\ frame[t].curDev = NULL
    /\ svmAllocDevice_ # SvmCapable(devices_)
    /\ Len(frame[t].calls) = 3
    /\ frame[t].ret # NULL
    /\ \A k \in 2..3 : frame[t].calls[k].ret = frame[t].calls[k].arg

\* C7: with an empty SVM subset svmAlloc returns nullptr, whatever its
\* arguments, without taking the lock and without any device call.
C7_EmptySubsetNull ==
  \A t \in AllocFrames :
    svmAllocDevice_ = <<>> =>
      /\ frame[t].pc = "done"
      /\ frame[t].ret = NULL
      /\ frame[t].calls = <<>>
      /\ ctxLock_ # t

C7_Witness ==
  \E t \in Threads :
    /\ AllocDone(t) /\ svmAllocDevice_ = <<>>
    /\ OriginHonours(frame[t])
    /\ "CL_MEM_SVM_ATOMICS" \in frame[t].flags

\* C8 as stated: with a non-empty subset, whenever every visited device
\* returns a non-null address svmAlloc returns a non-null pointer.
C8_Original ==
  \A t \in Threads :
    ( /\ AllocDone(t) /\ svmAllocDevice_ # <<>>
      /\ \A k \in 1..Len(frame[t].calls) : frame[t].calls[k].ret # NULL )
    => frame[t].ret # NULL

\* C8 amended: a device that cannot honour the atomics flag is never asked;
\* when at least one device is visited and every visited device returns a
\* non-null address the result is non-null; when no device is visited the
\* result is nullptr.
C8_ExcludedNotFailure ==
  \A t \in AllocFrames :
    LET f == frame[t] IN
    /\ \A k \in 1..Len(f.calls) :
         "CL_MEM_SVM_ATOMICS" \in f.flags => devInfo[f.calls[k].dev].atomics
    /\ ( /\ f.pc = "done" /\ f.calls # <<>>
         /\ \A k \in 1..Len(f.calls) : f.calls[k].ret # NULL )
       => f.ret # NULL
    /\ (f.pc = "done" /\ f.calls = <<>>) => f.ret = NULL

C8_Witness ==
  \E t \in Threads :
    /\ AllocDone(t) /\ frame[t].ret # NULL
    /\ "CL_MEM_SVM_ATOMICS" \in frame[t].flags
    /\ \E d \in Range(svmAllocDevice_) : ~devInfo[d].atomics

\* C9: svmFree asks the devices of the subset, each exactly once, in the
\* subset's order, with the pointer it was given, and no other device.
C9_FreeVisitsSubset ==
  \A t \in FreeFrames :
    LET f == frame[t] IN
    /\ IsPrefix(Asked(f), svmAllocDevice_)
    /\ \A k \in 1..Len(f.calls) : f.calls[k].fn = "svmFree" /\ f.calls[k].arg = f.ptr
    /\ f.pc = "done" =>
         /\ Asked(f) = svmAllocDevice_
         /\ \A d \in Devices :
              Cardinality({k \in 1..Len(f.calls) : f.calls[k].dev = d})
                = IF d \in Range(svmAllocDevice_) THEN 1 ELSE 0

C9_Witness ==
  \E t \in Threads :
    /\ FreeDone(t)
    /\ Len(frame[t].calls) >= 2
    /\ \E d \in Range(svmAllocDevice_) : ~devInfo[d].atomics
    /\ Range(svmAllocDevice_) # Range(devices_)

----------------------------------------------------------------------------
\* Claims about construction, destruction and the registry.

\* C1: the context calls retain() once per listed device in the constructor
\* and release() once per listed device in the destructor, and nowhere in
\* between: while the context exists every listed device holds one
\* reference of the context's, whatever has been called on it.
C1_RetainRelease ==
  \A d \in Devices :
    LET listed == IF d \in Range(devices_) THEN 1 ELSE 0 IN
    /\ phase = "new" => retains[d] = 0 /\ releases[d] = 0
    /\ phase \in {"constructed", "created"} =>
         /\ retains[d] = listed /\ releases[d] = 0
         /\ d \in Range(devices_) => retains[d] - releases[d] >= 1
    /\ phase = "destroyed" => retains[d] = listed /\ releases[d] = listed

C1_Witness ==
  /\ phase = "destroyed"
  /\ createRet # "none"
  /\ budget.left = 0
  /\ Len(devices_) >= 2
  /\ Range(svmAllocDevice_) # {} /\ Range(svmAllocDevice_) # Range(devices_)
  /\ \A d \in Range(devices_) : retains[d] = 1 /\ releases[d] = 1

\* The SVM-capable devices of the list, in input order.
SvmInput == SvmCapable(devices_)

\* C5: when the first SVM-capable device of the input is fine-grained-system
\* capable and another one is not, the constructed subset starts with an
\* incapable device and is a permutation of the SVM-capable input devices.
C5_IncapableFirst ==
  ( /\ phase = "constructed"
    /\ Len(SvmInput) >= 2
    /\ devInfo[SvmInput[1]].fgs
    /\ \E i \in 2..Len(SvmInput) : ~devInfo[SvmInput[i]].fgs )
  => /\ ~devInfo[svmAllocDevice_[1]].fgs
     /\ Len(svmAllocDevice_) = Len(SvmInput)
     /\ \A d \in Devices : Occurrences(svmAllocDevice_, d) = Occurrences(SvmInput, d)

C5_Witness ==
  /\ phase = "constructed"
  /\ Len(SvmInput) = 3
  /\ devInfo[SvmInput[1]].fgs /\ devInfo[SvmInput[2]].fgs /\ ~devInfo[SvmInput[3]].fgs
  /\ svmAllocDevice_[1] = SvmInput[3]

\* C6: when the SVM-capable devices all give the same fine-grained-system
\* answer, or there are fewer than two of them, the constructed subset is
\* the SVM-capable input devices in input order.
C6_NoSwap ==
  ( /\ phase = "constructed"
    /\ \/ Len(SvmInput) < 2
       \/ \A i, j \in 1..Len(SvmInput) : devInfo[SvmInput[i]].fgs = devInfo[SvmInput[j]].fgs )
  => svmAllocDevice_ = SvmInput

C6_Witness ==
  /\ phase = "constructed"
  /\ Len(SvmInput) = 3
  /\ Len(devices_) = 3
  /\ \A i \in 1..3 : ~devInfo[SvmInput[i]].fgs

\* The count of d is at or above the maximum d advertises, as unsigned
\* numbers: it has wrapped below zero, or it is no less than the maximum.
AtOrAboveMax(d) ==
  \/ Entry(d).deviceQueueCnt_ < 0
  \/ Entry(d).deviceQueueCnt_ >= devInfo[d].maxOnDeviceQueues_

\* C10 as stated: isDevQueuePossible returns false exactly when the count
\* equals the device's maximum.
C10_Original ==
  queryRet.dev # NULL =>
    (queryRet.val = FALSE <=>
       Entry(queryRet.dev).deviceQueueCnt_ = devInfo[queryRet.dev].maxOnDeviceQueues_)

\* C10 amended: isDevQueuePossible returns false exactly when the count is at
\* or above the device's maximum (addDeviceQueue does not check the maximum,
\* so the count can pass it), and true otherwise.
C10_FalseAtOrAboveMax ==
  queryRet.dev # NULL => (queryRet.val = FALSE <=> AtOrAboveMax(queryRet.dev))

C10_Witness ==
  /\ queryRet.dev # NULL
  /\ queryRet.val = FALSE
  /\ Entry(queryRet.dev).deviceQueueCnt_ > devInfo[queryRet.dev].maxOnDeviceQueues_
  /\ devInfo[queryRet.dev].maxOnDeviceQueues_ > 0

----------------------------------------------------------------------------
\* Claims about sequences of registry calls.

\* The last two registry calls are addDeviceQueue(d, q, _) and then
\* removeDeviceQueue(d, q).
AddThenRemove ==
  /\ hist.prev.fn = "addDeviceQueue" /\ hist.last.fn = "removeDeviceQueue"
  /\ hist.prev.dev = hist.last.dev /\ hist.prev.queue = hist.last.queue

\* C11: addDeviceQueue(d, q, isDefault) followed at once by
\* removeDeviceQueue(d, q) leaves the count of d as it was before the pair,
\* leaves d without a default queue when q was the default after the add, and
\* leaves a different earlier default in place when isDefault is false.
C11_AddRemoveRestores ==
  AddThenRemove =>
    LET a == hist.prev
        r == hist.last
    IN /\ ~aborted
       /\ Entry(a.dev).deviceQueueCnt_ = a.before.deviceQueueCnt_
       /\ r.before.defDeviceQueue_ = a.queue => defDeviceQueue(a.dev) = NULL
       /\ (~a.defDevQueue /\ a.before.defDeviceQueue_ # a.queue) =>
            defDeviceQueue(a.dev) = a.before.defDeviceQueue_

C11_Witness ==
  /\ AddThenRemove
  /\ hist.prev.defDevQueue
  /\ hist.prev.before.defDeviceQueue_ \notin {NULL, hist.prev.queue}
  /\ hist.prev.before.deviceQueueCnt_ > 0
  /\ defDeviceQueue(hist.last.dev) = NULL
  /\ Entry(hist.last.dev).deviceQueueCnt_ = hist.prev.before.deviceQueueCnt_

\* C12: removeDeviceQueue on a device whose count is 0 ends in an abort and
\* leaves the count at 0.
C12_AbortAtZero ==
  (hist.last.fn = "removeDeviceQueue" /\ hist.last.before.deviceQueueCnt_ = 0) =>
    /\ aborted
    /\ Entry(hist.last.dev).deviceQueueCnt_ = 0

\* C13: the count of a device is never negative, and removeDeviceQueue(d, q)
\* for a queue that is not registered on d (never added, or already removed)
\* does not change the count of d.
C13_OnlyRegisteredLowers ==
  /\ \A d \in Devices : Entry(d).deviceQueueCnt_ >= 0
  /\ (hist.last.fn = "removeDeviceQueue" /\ ~hist.last.wasReg) =>
       Entry(hist.last.dev).deviceQueueCnt_ = hist.last.before.deviceQueueCnt_

----------------------------------------------------------------------------
\* Claims about create(), the destructor and checkProperties.

\* create() has returned for a context that asked for a kind of external
\* device create() binds for.
CreatedWithExternalDevice ==
  createRet # "none" /\ info_.flags_ \cap BindKinds # {}

SomeBindFailed == \E k \in 1..Len(bindCalls) : ~bindCalls[k].ok

\* The positions of a call in the destructor's calls.
DtorAt(fn, d) == {k \in 1..Len(dtorCalls) : dtorCalls[k] = DtorCall(fn, d)}

\* C14: when an external-device kind is requested create() calls
\* bindExternalDevice once on every device, in input order, whatever the
\* earlier devices answered, and returns a failure exactly when a bind
\* failed or the GL environment could not be set up.
C14_BindAllAndReport ==
  CreatedWithExternalDevice =>
    /\ [k \in 1..Len(bindCalls) |-> bindCalls[k].dev] = devices_
    /\ createRet # "CL_SUCCESS" <=>
         (SomeBindFailed \/ glSetup \in {"loadLibrary failed", "init failed"})

\* C15: when GL is requested and every device bound, a failure to load the
\* GL library or to initialise the GL environment makes create() fail;
\* create() never returns success with GL requested and no GL environment.
C15_NoSuccessWithoutGLEnv ==
  (phase = "created" /\ "GLDeviceKhr" \in info_.flags_ /\ ~SomeBindFailed) =>
    /\ glSetup \in {"loadLibrary failed", "init failed"} => createRet # "CL_SUCCESS"
    /\ createRet = "CL_SUCCESS" => glenv_ # "NULL"

HandleTags == (D3DTags \cup GLTags) \cap CompiledTags(platform)

\* The property list carries a handle tag with a null value at position k.
NullHandleAt(k) ==
  /\ k \in 1..Len(props.pairs)
  /\ props.pairs[k].name \in HandleTags /\ props.pairs[k].ptr = NULL

\* What checkProperties returns for a list with an unrecognised tag.
UnknownTagError ==
  checkProperties([isNull |-> FALSE,
                   pairs |-> <<[name |-> "UNKNOWN_TAG", ptr |-> CL_TRUE]>>],
                  platform, FALSE).ret

\* C17: a list carrying a recognised handle tag with a null value is
\* rejected, and with an error other than that for an unrecognised tag.
C17_NullHandleDistinctError ==
  checkRet # NoCheck =>
    /\ (\E k \in 1..Len(props.pairs) : NullHandleAt(k)) => checkRet.ret # "CL_SUCCESS"
    /\ NullHandleAt(1) => checkRet.ret # UnknownTagError

\* C19: whenever create() has bound the devices, the destructor unbinds
\* every device.
C19_BindUnbindSymmetric ==
  (phase = "destroyed" /\ bindCalls # <<>>) =>
    \A d \in Range(devices_) : DtorAt("unbindExternalDevice", d) # {}

----------------------------------------------------------------------------
\* Claims about what the devices hold after svmAlloc and svmFree.

\* C18: when a device asked by svmAlloc returns nullptr, svmAlloc returns
\* nullptr at once: that call is its last device call, it issues no svmFree,
\* and the devices that allocated earlier in the call still hold what they
\* returned.
C18_NullStopsWithoutRollback ==
  \A t \in AllocFrames :
    LET f == frame[t]
        n == Len(f.calls)
    IN /\ \A k \in 1..n : f.calls[k].fn = "svmAlloc"
       /\ \A k \in 1..n :
            f.calls[k].ret = NULL => k = n /\ f.pc = "done" /\ f.ret = NULL
       /\ (f.pc = "done" /\ n > 0 /\ f.calls[n].ret = NULL) =>
            \A k \in 1..(n - 1) : f.calls[k].ret \in hist.held[f.calls[k].dev]

C18_Witness ==
  \E t \in Threads :
    /\ AllocDone(t)
    /\ Len(frame[t].calls) >= 2
    /\ frame[t].calls[Len(frame[t].calls)].ret = NULL
    /\ frame[t].calls[1].ret \in hist.held[frame[t].calls[1].dev]
    /\ Len(frame[t].calls) < Len(svmAllocDevice_)

\* C20: once svmFree(p) has asked its devices, no device that performed an
\* svmAlloc in a successful svmAlloc call that returned p is left holding it.
C20_FreeReachesEveryAllocator ==
  \A t \in Threads :
    FreeDone(t) => \A d \in Devices : frame[t].ptr \notin hist.given[d]

====
